---- MODULE Spec2Model ----
(***************************************************************************)
(* RedToken: the honeytoken lifecycle service (application/service.rs),    *)
(* its two token stores (infrastructure/repository.rs), the file injector  *)
(* (infrastructure/injection.rs), the composite notifier                   *)
(* (infrastructure/notification.rs) and the web handlers' status mapping   *)
(* (interfaces/web.rs).                                                    *)
(*                                                                         *)
(* Every request is a process that runs one service method.  A method is   *)
(* cut at its .await points on shared resources: each read or write of the *)
(* database file, of a target file, each backup copy and each webhook call *)
(* is one step.  The in-memory store takes its mutex for a whole           *)
(* operation, so each of its operations is one step.                       *)
(***************************************************************************)
EXTENDS Integers, Sequences, FiniteSets, TLC

\* ------------------------------------------------------------------ bounds
NumProcs == 2
MaxTokens == 2
MaxTime == 1
MaxOps == 3

Procs == 1..NumProcs
Ids == 1..MaxTokens
\* The values a caller passes to inject_token: value: String is taken as
\* given, the empty string included
Values == {"a", ""}
\* The values a caller passes to check_token: a stored one, and one that
\* differs from it only in case
Probes == {"a", "A"}
Paths == {"f"}
\* The file kinds of InjectionConfig the requests use: "Env" stands for the
\* kinds that back the file up, read it, append the value and write it (Env,
\* BashHistory); Custom writes nothing.  Json and Yaml take the same steps;
\* what they do to a document is modelled with the file's content in full,
\* further down.
FileTypes == {"Env", "Custom"}
\* InjectionConfig.injection_pattern is Some: main.rs builds every
\* InjectionConfig with injection_pattern: None
InjectionPatterns == {FALSE}
REDACTED == "[REDACTED]"
\* NotificationConfig.channels: the channel lists the runs are checked with.
ChannelConfigs ==
    { <<>>, <<"Telegram", "Email">>, <<"Telegram", "Discord">> }
MaxChannels == 2
ChanIdx == 1..MaxChannels

None == <<>>
Some(x) == <<x>>
EmptyMap == [i \in {} |-> 0]

VARIABLES
    serial,      \* TRUE: the caller issues one request at a time (the CLI);
                 \* FALSE: requests overlap (the axum server's handlers)
    storeKind,   \* "memory" or "file": which TokenRepository main.rs builds
    channels,    \* NotificationConfig.channels
    store,       \* the record map: the mutex-guarded HashMap, or the db file
    files,       \* target file path -> its lines that carry a secret
    backups,     \* backups/<timestamp>_<filename> -> copied content
    now,         \* the clock read by SystemTime::now / Local::now
    nextId,      \* the next fresh Uuid
    opsStarted,  \* number of requests started so far
    alerts,      \* token id -> number of send_alert calls made for it
    attempts,    \* <<token id, channel index>> -> delivery attempts
    persisted,   \* ids whose save/update returned Ok
    written,     \* token id -> the records the save/update calls wrote for it
    updateFailed, \* ids for which check_token's update returned an error
    everTriggered, \* ids that were stored with is_triggered = true
    injectedOk,  \* ids whose FileInjector::inject_token returned Ok
    pc,          \* per request: the await point it stands at
    op,          \* per request: the service method it runs
    arg,         \* per request: the method's arguments
    tok,         \* per request: the local Honeytoken (Option)
    snap,        \* per request: the map decoded by read_db
    cont,        \* per request: the target file content it read
    ci,          \* per request: index into channels in send_alert's loop
    succ,        \* per request: send_alert's local `success`
    sent,        \* per request: send_alert's result
    bak,         \* per request: the Result of the injector's backup_file call
    tries,       \* per request: the channels send_alert called, in order, each
                 \* with whether its delivery succeeded
    kase,        \* per request: what check_token's lookup found
    failed,      \* per request: the step that returned the error
    fault,       \* per request: what went wrong in that step ("io", "decode")
    error,       \* per request: the error the method returned
    res,         \* per request: the service method's Result
    http,        \* per request: the web handler's response
    fileKind,    \* text model: InjectionConfig.file_type
    yamlLib,     \* text model: the serde_yaml line the build links
    body,        \* text model: the target file's content
    prevBody,    \* text model: the content before the last call
    scrubbed,    \* text model: remove_token has rewritten the file
    last,        \* text model: the last call, its arguments and its result
    priors       \* text model: the contents the file had right before each
                 \* call that went on to rewrite it

cfgVars == <<serial, storeKind, channels>>
envVars == <<store, files, backups, now, nextId, opsStarted>>
logVars == <<alerts, attempts, persisted, written, updateFailed, everTriggered, injectedOk>>
procVars == <<pc, op, arg, tok, snap, cont, ci, succ, sent, bak, tries, kase, failed,
              fault, error, res, http>>
docVars == <<fileKind, yamlLib, body, prevBody, scrubbed, last, priors>>
vars == <<cfgVars, envVars, logVars, procVars, docVars>>

\* ------------------------------------------------------------- core/token.rs
\* Honeytoken::new
NewToken(id, value, path, t) ==
    [ id |-> id, value |-> value, file_path |-> path, created_at |-> t,
      last_checked |-> None, is_triggered |-> FALSE ]

\* Mutant of MarkAsTriggered: only the flag is set
MarkAsTriggeredFlagOnly(t, time) == [t EXCEPT !.is_triggered = TRUE]

\* Honeytoken::mark_as_triggered
MarkAsTriggered(t, time) ==
    [t EXCEPT !.is_triggered = TRUE, !.last_checked = Some(time)]

\* HashMap::insert(token.id, token.clone())
Insert(m, t) ==
    [i \in (DOMAIN m) \cup {t.id} |-> IF i = t.id THEN t ELSE m[i]]

\* to_lowercase on the modelled values
Lower(v) == IF v = "A" THEN "a" ELSE v

\* Mutant of Matching: the comparison ignores case
MatchingIgnoreCase(m, v) == {i \in DOMAIN m : Lower(m[i].value) = Lower(v)}

\* tokens.values().find(|t| t.value == value): the ids find may return
Matching(m, v) == {i \in DOMAIN m : m[i].value = v}

\* Mutant of Update: a record is only replaced, never added
UpdateOnlyIfPresent(m, t) == IF t.id \in DOMAIN m THEN Insert(m, t) ELSE m

\* TokenRepository::save on the decoded map: tokens.insert(token.id, ..)
Save(m, t) == Insert(m, t)

\* TokenRepository::update on the decoded map: tokens.insert(token.id, ..)
Update(m, t) == Insert(m, t)

\* --------------------------------------------- the database file's encoding
\* serde's encoding of a SystemTime: the duration since the epoch in two parts
EncodeTime(t) == [secs_since_epoch |-> t, nanos_since_epoch |-> 0]

\* serde's decoding of a SystemTime: UNIX_EPOCH + Duration::new(secs, nanos)
DecodeTime(e) == e.secs_since_epoch + e.nanos_since_epoch

\* serde_json's encoding of a Honeytoken: Option is null or the inner value
EncodeToken(t) ==
    [ id |-> t.id, value |-> t.value, file_path |-> t.file_path,
      created_at |-> EncodeTime(t.created_at),
      last_checked |-> IF t.last_checked = None THEN <<>>
                       ELSE <<EncodeTime(t.last_checked[1])>>,
      is_triggered |-> t.is_triggered ]

\* Mutant of DecodeToken: last_checked is not read back
DecodeTokenSkipsLastChecked(e) ==
    [ id |-> e.id, value |-> e.value, file_path |-> e.file_path,
      created_at |-> DecodeTime(e.created_at),
      last_checked |-> None,
      is_triggered |-> e.is_triggered ]

\* serde_json's decoding of a Honeytoken
DecodeToken(e) ==
    [ id |-> e.id, value |-> e.value, file_path |-> e.file_path,
      created_at |-> DecodeTime(e.created_at),
      last_checked |-> IF e.last_checked = <<>> THEN None
                       ELSE Some(DecodeTime(e.last_checked[1])),
      is_triggered |-> e.is_triggered ]

\* The orders in which tokens.values() may yield the records of ids S
Orders(S) ==
    {o \in [1..Cardinality(S) -> S] : \A j, k \in DOMAIN o : j # k => o[j] # o[k]}

\* write_db: the Vec<Honeytoken> collected from the map in order o, as JSON
WriteDb(m, o) == [k \in DOMAIN o |-> EncodeToken(m[o[k]])]

\* read_db: the Vec<Honeytoken> parsed from the file, inserted into a new map
\* in the order of the file
RECURSIVE ReadDb(_)
ReadDb(c) ==
    IF Len(c) = 0 THEN EmptyMap
    ELSE Insert(ReadDb(SubSeq(c, 1, Len(c) - 1)), DecodeToken(c[Len(c)]))

\* The maps a fresh FileTokenRepository can decode from the file after
\* write_db wrote the map m
Reloaded(m) == {ReadDb(WriteDb(m, o)) : o \in Orders(DOMAIN m)}

\* main.rs builds the file store, and enables backups, from the same flag
BackupEnabled == storeKind = "file"

\* ---------------------------------------------------------- interfaces/web.rs
\* Mutant of WebResponse: the check handler relays the service's error, as
\* the other handlers do
WebResponseRelaysCheckError(o, r) ==
    IF r = "ok" THEN [status |-> IF o = "inject" THEN 201 ELSE 200, success |-> TRUE]
    ELSE [status |-> 500, success |-> FALSE]

\* The response each handler gives for the service's Result
WebResponse(o, r) ==
    CASE o = "inject" -> IF r = "ok" THEN [status |-> 201, success |-> TRUE]
                                      ELSE [status |-> 500, success |-> FALSE]
      [] o = "remove" -> IF r = "ok" THEN [status |-> 200, success |-> TRUE]
                                      ELSE [status |-> 500, success |-> FALSE]
      [] o = "check"  -> IF r = "ok" THEN [status |-> 200, success |-> TRUE]
                                      ELSE [status |-> 200, success |-> TRUE]

NoResponse == [status |-> 0, success |-> FALSE]

\* ------------------------------------------------------------------ Init
NoArg == [path |-> "", value |-> "", file_type |-> "", pattern |-> FALSE, id |-> 0]

TypeOK ==
    /\ serial \in BOOLEAN
    /\ storeKind \in {"memory", "file"}
    /\ channels \in ChannelConfigs
    /\ DOMAIN store \subseteq Ids
    /\ now \in 0..MaxTime
    /\ nextId \in 1..(MaxTokens + 1)
    /\ pc \in [Procs -> {"idle", "inj_custom", "inj_backup", "inj_read", "inj_write",
                         "st_mem", "st_read", "st_write", "chk_find", "notify",
                         "rm_find", "rm_backup", "rm_read", "rm_write", "done"}]
    /\ op \in [Procs -> {"none", "inject", "check", "remove"}]
    /\ res \in [Procs -> {"none", "ok", "err"}]

InitCommon ==
    /\ storeKind \in {"memory", "file"}
    /\ channels \in ChannelConfigs
    /\ store = EmptyMap
    /\ files = [f \in Paths |-> <<>>]
    /\ backups = EmptyMap
    /\ now = 0
    /\ nextId = 1
    /\ opsStarted = 0
    /\ alerts = [i \in Ids |-> 0]
    /\ attempts = [k \in Ids \X ChanIdx |-> 0]
    /\ persisted = {}
    /\ written = [i \in Ids |-> {}]
    /\ updateFailed = {}
    /\ everTriggered = {}
    /\ injectedOk = {}
    /\ pc = [p \in Procs |-> "idle"]
    /\ op = [p \in Procs |-> "none"]
    /\ arg = [p \in Procs |-> NoArg]
    /\ tok = [p \in Procs |-> None]
    /\ snap = [p \in Procs |-> EmptyMap]
    /\ cont = [p \in Procs |-> <<>>]
    /\ ci = [p \in Procs |-> 0]
    /\ succ = [p \in Procs |-> FALSE]
    /\ sent = [p \in Procs |-> "none"]
    /\ bak = [p \in Procs |-> "none"]
    /\ tries = [p \in Procs |-> <<>>]
    /\ kase = [p \in Procs |-> "none"]
    /\ failed = [p \in Procs |-> "none"]
    /\ fault = [p \in Procs |-> "none"]
    /\ error = [p \in Procs |-> "none"]
    /\ res = [p \in Procs |-> "none"]
    /\ http = [p \in Procs |-> NoResponse]

NoCall == [op |-> "none", id |-> 0, value |-> <<>>, key |-> "none", ok |-> FALSE,
           error |-> "none"]

\* In the request-level specifications the target file's content is kept
\* per line (files); the variables of the text model stand still
NoDocument ==
    /\ fileKind = "Env"
    /\ yamlLib = "0.9"
    /\ body = <<>>
    /\ prevBody = <<>>
    /\ scrubbed = FALSE
    /\ last = NoCall
    /\ priors = {}

\* Requests overlap
Init == InitCommon /\ serial = FALSE /\ NoDocument

\* One request at a time
InitSeq == InitCommon /\ serial = TRUE /\ NoDocument

\* ------------------------------------------------------------ helpers
Set(f, p, v) == [f EXCEPT ![p] = v]

Token(p) == tok[p][1]

\* A request may start when its worker holds no request in flight; a serial
\* caller issues its requests one after another on the first worker
CanStart(p) ==
    /\ pc[p] \in {"idle", "done"}
    /\ opsStarted < MaxOps
    /\ serial => p = 1

\* A new request on worker p: method o with arguments a, local token t,
\* standing at l; nothing is left of the worker's previous request
Begin(p, o, a, t, l) ==
    /\ op' = Set(op, p, o)
    /\ arg' = Set(arg, p, a)
    /\ tok' = Set(tok, p, t)
    /\ pc' = Set(pc, p, l)
    /\ opsStarted' = opsStarted + 1
    /\ snap' = Set(snap, p, EmptyMap)
    /\ cont' = Set(cont, p, <<>>)
    /\ ci' = Set(ci, p, 0)
    /\ succ' = Set(succ, p, FALSE)
    /\ sent' = Set(sent, p, "none")
    /\ bak' = Set(bak, p, "none")
    /\ tries' = Set(tries, p, <<>>)
    /\ kase' = Set(kase, p, "none")
    /\ failed' = Set(failed, p, "none")
    /\ fault' = Set(fault, p, "none")
    /\ error' = Set(error, p, "none")
    /\ res' = Set(res, p, "none")
    /\ http' = Set(http, p, NoResponse)

\* The request moves on to its next await point
Goto(p, l) ==
    /\ pc' = Set(pc, p, l)
    /\ UNCHANGED <<res, failed, fault, error, http>>

\* The service method returns r to the handler, which builds its response;
\* the method's locals other than the token are dropped
Finish(p, r, why) ==
    /\ pc' = Set(pc, p, "done")
    /\ res' = Set(res, p, r)
    /\ failed' = Set(failed, p, why)
    /\ http' = Set(http, p, WebResponse(op[p], r))
    /\ snap' = Set(snap, p, EmptyMap)
    /\ cont' = Set(cont, p, <<>>)
    /\ ci' = Set(ci, p, 0)
    /\ succ' = Set(succ, p, FALSE)
    /\ IF r = "ok" THEN UNCHANGED <<fault, error>> ELSE TRUE

\* The method returns the error k, raised at step why by the fault f
Fail(p, why, f, k) ==
    /\ Finish(p, "err", why)
    /\ fault' = Set(fault, p, f)
    /\ error' = Set(error, p, k)

\* What can go wrong when read_db reads the backing file: the read fails, or
\* the content does not decode
ReadFaults == {"io", "decode"}

\* Mutant of ReadDbError: every failure of read_db is reported as
\* DatabaseError
ReadDbErrorAlwaysDatabase(f) == "DatabaseError"

\* read_db's error for a fault: the two Err arms of its matches
ReadDbError(f) == IF f = "decode" THEN "DatabaseError" ELSE "FileReadError"

\* The first step of TokenRepository::save / update for the configured store
StoreEntry == IF storeKind = "memory" THEN "st_mem" ELSE "st_read"

\* The outcomes an operation on the backing medium can have: the in-memory
\* store's lock is never poisoned (no holder panics); file I/O can fail
StoreOutcomes == IF storeKind = "memory" THEN {TRUE} ELSE BOOLEAN

\* backup_file returns at once when backups are disabled
InjectorEntry(kind) ==
    IF BackupEnabled THEN (IF kind = "inject" THEN "inj_backup" ELSE "rm_backup")
    ELSE (IF kind = "inject" THEN "inj_read" ELSE "rm_read")

\* content.replace(&token.value, "[REDACTED]") on the secret-carrying lines
Redact(c, v) == [i \in 1..Len(c) |-> IF c[i] = v THEN REDACTED ELSE c[i]]

\* tokens.values().cloned().collect()
FindAll(m) == {m[i] : i \in DOMAIN m}

Triggered(m) == {i \in DOMAIN m : m[i].is_triggered}

\* ---------------------------------------------- TokenRepository::save / update
\* What follows a successful save (inject_token returns the token) or update
\* (check_token calls send_alert)
AfterStore(p) ==
    IF op[p] = "inject"
    THEN /\ Finish(p, "ok", "none")
         /\ UNCHANGED alerts
    ELSE /\ Goto(p, "notify")
         /\ ci' = Set(ci, p, 1)
         /\ succ' = Set(succ, p, FALSE)
         /\ snap' = Set(snap, p, EmptyMap)
         /\ alerts' = [alerts EXCEPT ![Token(p).id] = @ + 1]
         /\ UNCHANGED cont

\* The map after the insert of the call the request is in: save for
\* inject_token, update for check_token
StoreOp(p, m) ==
    IF op[p] = "inject" THEN Save(m, Token(p)) ELSE Update(m, Token(p))

\* Mutant of StoreMem: the insert is made into a map copied before the lock
\* was taken
StoreMemOnCopy(p) ==
    /\ pc[p] = "st_mem"
    /\ store' = StoreOp(p, snap[p])
    /\ persisted' = persisted \cup {Token(p).id}
    /\ written' = [written EXCEPT ![Token(p).id] = @ \cup {Token(p)}]
    /\ UNCHANGED updateFailed
    /\ everTriggered' = everTriggered \cup Triggered(store')
    /\ AfterStore(p)
    /\ UNCHANGED <<cfgVars, docVars, files, backups, now, nextId, opsStarted, attempts,
                   injectedOk, op, arg, bak, tries, tok, sent, kase>>

\* InMemoryTokenRepository::save / update: lock, insert, unlock
StoreMem(p) ==
    /\ pc[p] = "st_mem"
    /\ store' = StoreOp(p, store)
    /\ persisted' = persisted \cup {Token(p).id}
    /\ written' = [written EXCEPT ![Token(p).id] = @ \cup {Token(p)}]
    /\ UNCHANGED updateFailed
    /\ everTriggered' = everTriggered \cup Triggered(store')
    /\ AfterStore(p)
    /\ UNCHANGED <<cfgVars, docVars, files, backups, now, nextId, opsStarted, attempts,
                   injectedOk, op, arg, bak, tries, tok, sent, kase>>

\* The ids whose update failed, after the store call of request p failed
UpdateFailedBy(p) ==
    IF op[p] = "check" THEN updateFailed \cup {Token(p).id} ELSE updateFailed

\* Mutant of StoreRead: check_token drops the error of a failed update and
\* goes on to send_alert
StoreReadErrorDroppedByCheck(p) ==
    /\ pc[p] = "st_read"
    /\ \E ok \in BOOLEAN :
         IF ok
         THEN /\ snap' = Set(snap, p, store)
              /\ Goto(p, "st_write")
              /\ UNCHANGED <<cont, ci, succ, updateFailed, alerts>>
         ELSE IF op[p] = "check"
              THEN /\ Goto(p, "notify")
                   /\ ci' = Set(ci, p, 1)
                   /\ alerts' = [alerts EXCEPT ![Token(p).id] = @ + 1]
                   /\ updateFailed' = UpdateFailedBy(p)
                   /\ UNCHANGED <<snap, cont, succ>>
              ELSE /\ \E f \in ReadFaults : Fail(p, "store", f, ReadDbError(f))
                   /\ UNCHANGED <<updateFailed, alerts>>
    /\ UNCHANGED <<cfgVars, docVars, envVars, attempts, persisted, written, everTriggered,
                   injectedOk, op, arg, bak, tries, tok, sent, kase>>

\* FileTokenRepository::save / update, first half: read_db
StoreRead(p) ==
    /\ pc[p] = "st_read"
    /\ \E ok \in BOOLEAN :
         IF ok
         THEN /\ snap' = Set(snap, p, store)
              /\ Goto(p, "st_write")
              /\ UNCHANGED <<cont, ci, succ, updateFailed>>
         ELSE /\ \E f \in ReadFaults : Fail(p, "store", f, ReadDbError(f))
              /\ updateFailed' = UpdateFailedBy(p)
    /\ UNCHANGED <<cfgVars, docVars, envVars, alerts, attempts, persisted, written, everTriggered,
                   injectedOk, op, arg, bak, tries, tok, sent, kase>>

\* Mutant of StoreWrite: when write_db fails for inject_token, the line the
\* injector added to the target file is taken out again
StoreWriteRollsBack(p) ==
    /\ pc[p] = "st_write"
    /\ \E ok \in BOOLEAN :
         IF ok
         THEN /\ store' \in Reloaded(StoreOp(p, snap[p]))
              /\ persisted' = persisted \cup {Token(p).id}
              /\ written' = [written EXCEPT ![Token(p).id] = @ \cup {Token(p)}]
              /\ UNCHANGED updateFailed
              /\ everTriggered' = everTriggered \cup Triggered(store')
              /\ AfterStore(p)
              /\ UNCHANGED files
         ELSE /\ Fail(p, "store", "io", "FileWriteError")
              /\ files' = IF op[p] = "inject"
                          THEN [files EXCEPT ![Token(p).file_path] =
                                   SubSeq(@, 1, Len(@) - 1)]
                          ELSE files
              /\ updateFailed' = UpdateFailedBy(p)
              /\ UNCHANGED <<store, persisted, written, everTriggered, alerts>>
    /\ UNCHANGED <<cfgVars, docVars, backups, now, nextId, opsStarted, attempts,
                   injectedOk, op, arg, bak, tries, tok, sent, kase>>

\* FileTokenRepository::save / update, second half: insert into the decoded
\* map and write_db.  `store` holds the file as read_db decodes it.
StoreWrite(p) ==
    /\ pc[p] = "st_write"
    /\ \E ok \in BOOLEAN :
         IF ok
         THEN /\ store' \in Reloaded(StoreOp(p, snap[p]))
              /\ persisted' = persisted \cup {Token(p).id}
              /\ written' = [written EXCEPT ![Token(p).id] = @ \cup {Token(p)}]
              /\ UNCHANGED updateFailed
              /\ everTriggered' = everTriggered \cup Triggered(store')
              /\ AfterStore(p)
         ELSE /\ Fail(p, "store", "io", "FileWriteError")
              /\ updateFailed' = UpdateFailedBy(p)
              /\ UNCHANGED <<store, persisted, written, everTriggered, alerts>>
    /\ UNCHANGED <<cfgVars, docVars, files, backups, now, nextId, opsStarted, attempts,
                   injectedOk, op, arg, bak, tries, tok, sent, kase>>

\* ------------------------------------------------ RedTokenService::inject_token
\* Honeytoken::new, then file_injector.inject_token up to its first await
StartInject(p, path, v, ft, pat) ==
    /\ CanStart(p)
    /\ nextId <= MaxTokens
    /\ Begin(p, "inject",
             [path |-> path, value |-> v, file_type |-> ft, pattern |-> pat, id |-> 0],
             Some(NewToken(nextId, v, path, now)),
             IF ft = "Custom" THEN "inj_custom" ELSE InjectorEntry("inject"))
    /\ nextId' = nextId + 1
    /\ UNCHANGED <<cfgVars, docVars, store, files, backups, now, logVars>>

\* Mutant of InjectCustom: without a pattern the Custom kind is injected
\* like an Env file
InjectCustomFallsBackToEnv(p) ==
    /\ pc[p] = "inj_custom"
    /\ Goto(p, InjectorEntry("inject"))
    /\ UNCHANGED <<cfgVars, docVars, envVars, logVars, op, arg, bak, tries, tok, snap, cont, ci,
                   succ, sent, kase>>

\* FileInjectionService::inject_token, FileType::Custom arm
InjectCustom(p) ==
    /\ pc[p] = "inj_custom"
    /\ IF arg[p].pattern
       THEN /\ injectedOk' = injectedOk \cup {Token(p).id}
            /\ Goto(p, StoreEntry)
            /\ UNCHANGED <<snap, cont, ci, succ>>
       ELSE /\ Fail(p, "inject", "none", "MissingPattern")
            /\ UNCHANGED injectedOk
    /\ UNCHANGED <<cfgVars, docVars, envVars, alerts, attempts, persisted, written, updateFailed, everTriggered,
                   op, arg, bak, tries, tok, sent, kase>>

\* Mutant of BackupFile: the Err of backup_file is dropped and the operation
\* goes on to read and write the target file
BackupFileErrorSwallowed(p) ==
    /\ pc[p] \in {"inj_backup", "rm_backup"}
    /\ LET path == Token(p).file_path
       IN  \E ok \in BOOLEAN :
             /\ bak' = Set(bak, p, IF ok THEN "ok" ELSE "err")
             /\ backups' = IF ok
                           THEN [k \in (DOMAIN backups) \cup {<<now, path>>} |->
                                   IF k = <<now, path>> THEN files[path]
                                   ELSE backups[k]]
                           ELSE backups
             /\ Goto(p, IF pc[p] = "inj_backup" THEN "inj_read" ELSE "rm_read")
             /\ UNCHANGED <<snap, cont, ci, succ>>
    /\ UNCHANGED <<cfgVars, docVars, store, files, now, nextId, opsStarted, logVars,
                   op, arg, tries, tok, sent, kase>>

\* FileInjectionService::backup_file with backups enabled: fs::copy into
\* backups/<timestamp>_<filename>; the callers return its Err with ?
BackupFile(p) ==
    /\ pc[p] \in {"inj_backup", "rm_backup"}
    /\ LET path == Token(p).file_path
       IN  \E ok \in BOOLEAN :
             IF ok
             THEN /\ backups' = [k \in (DOMAIN backups) \cup {<<now, path>>} |->
                                   IF k = <<now, path>> THEN files[path]
                                   ELSE backups[k]]
                  /\ bak' = Set(bak, p, "ok")
                  /\ Goto(p, IF pc[p] = "inj_backup" THEN "inj_read" ELSE "rm_read")
                  /\ UNCHANGED <<snap, cont, ci, succ>>
             ELSE /\ Fail(p, IF op[p] = "inject" THEN "inject" ELSE "scrub", "io",
                          "FileWriteError")
                  /\ bak' = Set(bak, p, "err")
                  /\ UNCHANGED backups
    /\ UNCHANGED <<cfgVars, docVars, store, files, now, nextId, opsStarted, logVars,
                   op, arg, tries, tok, sent, kase>>

\* fs::read_to_string(file_path) in inject_env / inject_bash_history / remove_token
TargetRead(p) ==
    /\ pc[p] \in {"inj_read", "rm_read"}
    /\ \E ok \in BOOLEAN :
         IF ok
         THEN /\ cont' = Set(cont, p, files[Token(p).file_path])
              /\ Goto(p, IF pc[p] = "inj_read" THEN "inj_write" ELSE "rm_write")
              /\ UNCHANGED <<snap, ci, succ>>
         ELSE Fail(p, IF op[p] = "inject" THEN "inject" ELSE "scrub", "io",
                   "FileReadError")
    /\ UNCHANGED <<cfgVars, docVars, envVars, logVars, op, arg, bak, tries, tok, sent, kase>>

\* Mutant of InjectWrite: the service ignores the injector's Err and goes on
\* to token_repo.save
InjectWriteErrorIgnored(p) ==
    /\ pc[p] = "inj_write"
    /\ \E ok \in BOOLEAN :
         IF ok
         THEN /\ files' = [files EXCEPT ![Token(p).file_path] =
                              Append(cont[p], Token(p).value)]
              /\ injectedOk' = injectedOk \cup {Token(p).id}
         ELSE UNCHANGED <<files, injectedOk>>
    /\ Goto(p, StoreEntry)
    /\ cont' = Set(cont, p, <<>>)
    /\ UNCHANGED <<snap, ci, succ>>
    /\ UNCHANGED <<cfgVars, docVars, store, backups, now, nextId, opsStarted, alerts, attempts,
                   persisted, written, updateFailed, everTriggered, op, arg, bak, tries, tok, sent, kase>>

\* inject_env / inject_bash_history: append the line with the value, fs::write;
\* on success the service goes on to token_repo.save
InjectWrite(p) ==
    /\ pc[p] = "inj_write"
    /\ \E ok \in BOOLEAN :
         IF ok
         THEN /\ files' = [files EXCEPT ![Token(p).file_path] =
                              Append(cont[p], Token(p).value)]
              /\ injectedOk' = injectedOk \cup {Token(p).id}
              /\ Goto(p, StoreEntry)
              /\ cont' = Set(cont, p, <<>>)
              /\ UNCHANGED <<snap, ci, succ>>
         ELSE /\ Fail(p, "inject", "io", "FileWriteError")
              /\ UNCHANGED <<files, injectedOk>>
    /\ UNCHANGED <<cfgVars, docVars, store, backups, now, nextId, opsStarted, alerts, attempts,
                   persisted, written, updateFailed, everTriggered, op, arg, bak, tries, tok, sent, kase>>

\* ------------------------------------------------- RedTokenService::check_token
StartCheck(p, v) ==
    /\ CanStart(p)
    /\ Begin(p, "check", [NoArg EXCEPT !.value = v], None, "chk_find")
    /\ UNCHANGED <<cfgVars, docVars, store, files, backups, now, nextId, logVars>>

\* Mutant of CheckNotFound: a value that matches nothing is reported as
\* RedTokenError::TokenNotFound
CheckNotFoundIsError(p) ==
    /\ kase' = Set(kase, p, "notfound")
    /\ Fail(p, "notfound", "none", "TokenNotFound")
    /\ UNCHANGED tok

\* What check_token does with the None that find_by_value returned: the
\* if let does not match and the method returns Ok(())
CheckNotFound(p) ==
    /\ kase' = Set(kase, p, "notfound")
    /\ Finish(p, "ok", "none")
    /\ UNCHANGED tok

\* Mutant of CheckFound: no test of is_triggered, every match is marked,
\* updated and alerted
CheckFoundIgnoresFlag(p, i) ==
    /\ tok' = Set(tok, p, Some(MarkAsTriggered(store[i], now)))
    /\ kase' = Set(kase, p, IF store[i].is_triggered THEN "triggered" ELSE "untriggered")
    /\ Goto(p, StoreEntry)
    /\ UNCHANGED <<snap, cont, ci, succ>>

\* What check_token does with the Some(token) that find_by_value returned
CheckFound(p, i) ==
    IF store[i].is_triggered
    THEN /\ tok' = Set(tok, p, Some(store[i]))
         /\ kase' = Set(kase, p, "triggered")
         /\ Finish(p, "ok", "none")
    ELSE /\ tok' = Set(tok, p, Some(MarkAsTriggered(store[i], now)))
         /\ kase' = Set(kase, p, "untriggered")
         /\ Goto(p, StoreEntry)
         /\ UNCHANGED <<snap, cont, ci, succ>>

\* token_repo.find_by_value(token_value), then the two ifs of check_token up
\* to the call of update
FindByValue(p) ==
    /\ pc[p] = "chk_find"
    /\ \E ok \in StoreOutcomes :
         IF ~ok
         THEN /\ \E f \in ReadFaults : Fail(p, "find", f, ReadDbError(f))
              /\ UNCHANGED <<tok, kase>>
         ELSE IF Matching(store, arg[p].value) = {}
              THEN CheckNotFound(p)
              ELSE \E i \in Matching(store, arg[p].value) : CheckFound(p, i)
    /\ UNCHANGED <<cfgVars, docVars, envVars, logVars, op, arg, bak, tries, sent>>

\* ------------------------------------ CompositeNotificationService::send_alert
\* Whether a channel's delivery can fail: send_email only logs and returns Ok
\* Mutant of ChannelOutcomes: the Email delivery can fail like the others
ChannelOutcomesEmailMayFail(ch) == BOOLEAN

ChannelOutcomes(ch) == IF ch = "Email" THEN {TRUE} ELSE BOOLEAN

\* Mutant of SendChannel: `success` is assigned each channel's outcome, so
\* the last channel decides
SendChannelLastWins(p) ==
    /\ pc[p] = "notify"
    /\ ci[p] <= Len(channels)
    /\ \E ok \in ChannelOutcomes(channels[ci[p]]) :
         /\ succ' = Set(succ, p, ok)
         /\ tries' = Set(tries, p, Append(tries[p], [ch |-> ci[p], ok |-> ok]))
    /\ attempts' = [attempts EXCEPT ![<<Token(p).id, ci[p]>>] = @ + 1]
    /\ ci' = Set(ci, p, ci[p] + 1)
    /\ UNCHANGED <<cfgVars, docVars, envVars, alerts, persisted, written, updateFailed, everTriggered, injectedOk,
                   pc, op, arg, bak, tok, snap, cont, sent, kase, failed, fault, error, res, http>>

\* Mutant of SendChannel: the loop is left at the first channel that fails
SendChannelStopsOnFailure(p) ==
    /\ pc[p] = "notify"
    /\ ci[p] <= Len(channels)
    /\ \E ok \in ChannelOutcomes(channels[ci[p]]) :
         /\ succ' = Set(succ, p, succ[p] \/ ok)
         /\ tries' = Set(tries, p, Append(tries[p], [ch |-> ci[p], ok |-> ok]))
         /\ ci' = Set(ci, p, IF ok THEN ci[p] + 1 ELSE Len(channels) + 1)
    /\ attempts' = [attempts EXCEPT ![<<Token(p).id, ci[p]>>] = @ + 1]
    /\ UNCHANGED <<cfgVars, docVars, envVars, alerts, persisted, written, updateFailed, everTriggered, injectedOk,
                   pc, op, arg, bak, tok, snap, cont, sent, kase, failed, fault, error, res, http>>

\* One iteration of the loop over config.channels: the channel's send is
\* called, an Err is logged, an Ok sets `success`
SendChannel(p) ==
    /\ pc[p] = "notify"
    /\ ci[p] <= Len(channels)
    /\ \E ok \in ChannelOutcomes(channels[ci[p]]) :
         /\ succ' = Set(succ, p, succ[p] \/ ok)
         /\ tries' = Set(tries, p, Append(tries[p], [ch |-> ci[p], ok |-> ok]))
    /\ attempts' = [attempts EXCEPT ![<<Token(p).id, ci[p]>>] = @ + 1]
    /\ ci' = Set(ci, p, ci[p] + 1)
    /\ UNCHANGED <<cfgVars, docVars, envVars, alerts, persisted, written, updateFailed, everTriggered, injectedOk,
                   pc, op, arg, bak, tok, snap, cont, sent, kase, failed, fault, error, res, http>>

\* Mutant of SendAlertReturn: check_token propagates send_alert's Err with ?
SendAlertReturnPropagates(p) ==
    /\ pc[p] = "notify"
    /\ ci[p] > Len(channels)
    /\ sent' = Set(sent, p, IF succ[p] THEN "ok" ELSE "err")
    /\ IF succ[p] THEN Finish(p, "ok", "none")
       ELSE Fail(p, "notify", "none", "NotificationError")
    /\ UNCHANGED <<cfgVars, docVars, envVars, logVars, op, arg, bak, tries, tok, kase>>

\* Mutant of SendAlertReturn: with no channel configured send_alert is Ok
SendAlertReturnEmptyIsOk(p) ==
    /\ pc[p] = "notify"
    /\ ci[p] > Len(channels)
    /\ sent' = Set(sent, p, IF succ[p] \/ Len(channels) = 0 THEN "ok" ELSE "err")
    /\ Finish(p, "ok", "none")
    /\ UNCHANGED <<cfgVars, docVars, envVars, logVars, op, arg, bak, tries, tok, kase>>

\* send_alert's result after the loop, and check_token's handling of it: an
\* Err is logged and check_token returns Ok(())
SendAlertReturn(p) ==
    /\ pc[p] = "notify"
    /\ ci[p] > Len(channels)
    /\ sent' = Set(sent, p, IF succ[p] THEN "ok" ELSE "err")
    /\ Finish(p, "ok", "none")
    /\ UNCHANGED <<cfgVars, docVars, envVars, logVars, op, arg, bak, tries, tok, kase>>

\* ------------------------------------------------ RedTokenService::remove_token
StartRemove(p, id) ==
    /\ CanStart(p)
    /\ Begin(p, "remove", [NoArg EXCEPT !.id = id], None, "rm_find")
    /\ UNCHANGED <<cfgVars, docVars, store, files, backups, now, nextId, logVars>>

\* token_repo.find_by_id(token_id) and the if let of remove_token
FindById(p) ==
    /\ pc[p] = "rm_find"
    /\ \E ok \in StoreOutcomes :
         IF ~ok
         THEN /\ \E f \in ReadFaults : Fail(p, "find", f, ReadDbError(f))
              /\ UNCHANGED <<tok, kase>>
         ELSE IF arg[p].id \notin DOMAIN store
              THEN /\ kase' = Set(kase, p, "notfound")
                   /\ Finish(p, "ok", "none")
                   /\ UNCHANGED tok
              ELSE /\ tok' = Set(tok, p, Some(store[arg[p].id]))
                   /\ kase' = Set(kase, p, "found")
                   /\ Goto(p, InjectorEntry("remove"))
                   /\ UNCHANGED <<snap, cont, ci, succ>>
    /\ UNCHANGED <<cfgVars, docVars, envVars, logVars, op, arg, bak, tries, sent>>

\* FileInjectionService::remove_token: replace and fs::write; the service
\* then returns Ok(()) without touching the repository
RemoveWrite(p) ==
    /\ pc[p] = "rm_write"
    /\ \E ok \in BOOLEAN :
         IF ok
         THEN /\ files' = [files EXCEPT ![Token(p).file_path] =
                              Redact(cont[p], Token(p).value)]
              /\ Finish(p, "ok", "none")
         ELSE /\ Fail(p, "scrub", "io", "FileWriteError")
              /\ UNCHANGED files
    /\ UNCHANGED <<cfgVars, docVars, store, backups, now, nextId, opsStarted, logVars,
                   op, arg, bak, tries, tok, sent, kase>>

\* ------------------------------------------------------------- environment
\* Time passes
Tick ==
    /\ now < MaxTime
    /\ now' = now + 1
    /\ UNCHANGED <<cfgVars, docVars, store, files, backups, nextId, opsStarted, logVars, procVars>>

Next ==
    \/ \E p \in Procs, path \in Paths, v \in Values, ft \in FileTypes :
         \E pat \in InjectionPatterns : StartInject(p, path, v, ft, pat)
    \/ \E p \in Procs : InjectCustom(p)
    \/ \E p \in Procs : BackupFile(p)
    \/ \E p \in Procs : TargetRead(p)
    \/ \E p \in Procs : InjectWrite(p)
    \/ \E p \in Procs : StoreMem(p)
    \/ \E p \in Procs : StoreRead(p)
    \/ \E p \in Procs : StoreWrite(p)
    \/ \E p \in Procs, v \in Probes : StartCheck(p, v)
    \/ \E p \in Procs : FindByValue(p)
    \/ \E p \in Procs : SendChannel(p)
    \/ \E p \in Procs : SendAlertReturn(p)
    \/ \E p \in Procs, id \in Ids : StartRemove(p, id)
    \/ \E p \in Procs : FindById(p)
    \/ \E p \in Procs : RemoveWrite(p)
    \/ Tick

\* The server: requests overlap
Spec == Init /\ [][Next]_vars

\* One request at a time
SpecSeq == InitSeq /\ [][Next]_vars

\* ------------------------------------------- the target file, in full
\* infrastructure/injection.rs works on the target file's text. Here the
\* text is a sequence of characters; a fixed piece of text that shares no
\* character with any modelled token value (a key name, a fake command's
\* frame, the comment line) is written as one item of the sequence.
NL == "\n"
Quote == "\""
Backslash == "\\"

\* The literal "[REDACTED]" of remove_token
Marker == <<"[", "R", "E", "D", "A", "C", "T", "E", "D", "]">>

\* Token values of the CLI's --value / the web request's value
FileValues == {<<"q">>, <<"D">>, <<"q", Quote>>}

\* format!("apiToken{}", thread_rng().gen_range(100..999))
Keys == {"apiToken100", "apiToken101"}

\* Key names a document can hold: the generated ones and one of the user's
KeyOrder == <<"apiToken100", "apiToken101", "name">>
KeyAtoms == {KeyOrder[i] : i \in 1..Len(KeyOrder)}

\* format!("API_TOKEN_{}", thread_rng().gen_range(100..999))
VarNames == {"API_TOKEN_100"}

\* Indices into inject_bash_history's fake_commands
CommandIdx == 1..4

FileKinds == {"Env", "Json", "Yaml", "BashHistory", "Custom"}

\* serde_yaml's emitter differs between the 0.8 line (yaml-rust: a leading
\* "---", strings holding a quote are written double-quoted and escaped) and
\* the 0.9 line (libyaml: no header, such strings are written plain); the
\* build's lock file decides which one is linked
YamlLibs == {"0.8", "0.9"}

\* str::starts_with at position i
IsPrefixAt(t, s, i) ==
    /\ i + Len(s) - 1 <= Len(t)
    /\ \A j \in 1..Len(s) : t[i + j - 1] = s[j]

\* str::contains
Contains(t, s) == \E i \in 1..(Len(t) + 1) : IsPrefixAt(t, s, i)

RECURSIVE ReplaceFrom(_, _, _, _)
\* str::replace from position i on, for a non-empty pattern: the leftmost
\* match is replaced and the search goes on behind it
ReplaceFrom(t, s, r, i) ==
    IF i > Len(t) THEN <<>>
    ELSE IF IsPrefixAt(t, s, i) THEN r \o ReplaceFrom(t, s, r, i + Len(s))
    ELSE <<t[i]>> \o ReplaceFrom(t, s, r, i + 1)

RECURSIVE Interleave(_, _, _)
\* str::replace with the empty pattern: a match at every boundary
Interleave(t, r, i) ==
    IF i > Len(t) THEN r ELSE r \o <<t[i]>> \o Interleave(t, r, i + 1)

\* str::replace
Replace(t, s, r) == IF s = <<>> THEN Interleave(t, r, 1) ELSE ReplaceFrom(t, s, r, 1)

RECURSIVE TrimEnd(_)
\* str::trim_end
TrimEnd(t) ==
    IF t # <<>> /\ t[Len(t)] \in {" ", NL} THEN TrimEnd(SubSeq(t, 1, Len(t) - 1)) ELSE t

\* A parsed document: an object/mapping of string values, or another root
Object(m) == [root |-> "object", map |-> m]
OtherRoot == [root |-> "other", map |-> EmptyMap]
Parsed(d) == [ok |-> TRUE, doc |-> d]
ParseError == [ok |-> FALSE, doc |-> OtherRoot]

Put(m, k, v) == [x \in (DOMAIN m) \cup {k} |-> IF x = k THEN v ELSE m[x]]

RECURSIVE EscapeString(_)
\* The characters of a string inside double quotes: quote and backslash are
\* written behind a backslash
EscapeString(s) ==
    IF s = <<>> THEN <<>>
    ELSE (IF s[1] \in {Quote, Backslash} THEN <<Backslash, s[1]>> ELSE <<s[1]>>)
         \o EscapeString(Tail(s))

RECURSIVE ScanString(_, _, _)
\* Reads a double-quoted string whose opening quote stands before position i
ScanString(t, i, acc) ==
    IF i > Len(t) THEN [ok |-> FALSE, s |-> <<>>, next |-> i]
    ELSE IF t[i] = Quote THEN [ok |-> TRUE, s |-> acc, next |-> i + 1]
    ELSE IF t[i] = Backslash
         THEN IF i + 1 <= Len(t) /\ t[i + 1] \in {Quote, Backslash}
              THEN ScanString(t, i + 2, Append(acc, t[i + 1]))
              ELSE [ok |-> FALSE, s |-> <<>>, next |-> i]
    ELSE IF t[i] = NL THEN [ok |-> FALSE, s |-> <<>>, next |-> i]
    ELSE ScanString(t, i + 1, Append(acc, t[i]))

\* The keys of a map in the order they are written
KeysOf(m) == SelectSeq(KeyOrder, LAMBDA k : k \in DOMAIN m)

RECURSIVE JsonEntries(_, _)
JsonEntries(m, ks) ==
    IF ks = <<>> THEN <<>>
    ELSE <<" ", " ", Quote, ks[1], Quote, ":", " ", Quote>>
         \o EscapeString(m[ks[1]]) \o <<Quote>>
         \o (IF Len(ks) > 1 THEN <<",", NL>> ELSE <<NL>>)
         \o JsonEntries(m, Tail(ks))

\* serde_json::to_string_pretty of an object of strings
RenderJson(d) ==
    IF DOMAIN d.map = {} THEN <<"{", "}">>
    ELSE <<"{", NL>> \o JsonEntries(d.map, KeysOf(d.map)) \o <<"}">>

RECURSIVE ParseJsonEntries(_, _, _)
ParseJsonEntries(t, i, m) ==
    IF ~ (/\ i + 7 <= Len(t)
          /\ t[i] = " " /\ t[i + 1] = " " /\ t[i + 2] = Quote
          /\ t[i + 3] \in KeyAtoms
          /\ t[i + 4] = Quote /\ t[i + 5] = ":" /\ t[i + 6] = " "
          /\ t[i + 7] = Quote)
    THEN ParseError
    ELSE LET r == ScanString(t, i + 8, <<>>)
             n == r.next
         IN  IF ~r.ok THEN ParseError
             ELSE IF n + 1 = Len(t) /\ t[n] = NL /\ t[n + 1] = "}"
                  THEN Parsed(Object(Put(m, t[i + 3], r.s)))
             ELSE IF n + 1 < Len(t) /\ t[n] = "," /\ t[n + 1] = NL
                  THEN ParseJsonEntries(t, n + 2, Put(m, t[i + 3], r.s))
             ELSE ParseError

\* serde_json::from_str::<Value> on the texts that occur: a pretty-printed
\* object of strings, a number, or something that is not JSON
ParseJson(t) ==
    IF t = <<"{", "}">> THEN Parsed(Object(EmptyMap))
    ELSE IF t = <<"7">> THEN Parsed(OtherRoot)
    ELSE IF Len(t) >= 2 /\ t[1] = "{" /\ t[2] = NL THEN ParseJsonEntries(t, 3, EmptyMap)
    ELSE ParseError

\* The yaml-rust emitter's need_quotes, on the characters that occur
NeedQuotes(v) ==
    \E i \in 1..Len(v) : v[i] \in {Quote, Backslash, ":", "{", "}", "[", "]", ",", "#"}

\* How a string value is written
YamlScalar(lib, v) ==
    IF lib = "0.8" /\ NeedQuotes(v) THEN <<Quote>> \o EscapeString(v) \o <<Quote>> ELSE v

RECURSIVE YamlEntries(_, _, _)
YamlEntries(lib, m, ks) ==
    IF ks = <<>> THEN <<>>
    ELSE <<ks[1], ":", " ">> \o YamlScalar(lib, m[ks[1]]) \o <<NL>>
         \o YamlEntries(lib, m, Tail(ks))

\* serde_yaml::to_string of a mapping of strings
RenderYaml(lib, d) ==
    (IF lib = "0.8" THEN <<"---", NL>> ELSE <<>>)
    \o (IF DOMAIN d.map = {} THEN <<"{", "}", NL>>
        ELSE YamlEntries(lib, d.map, KeysOf(d.map)))

RECURSIVE PlainEnd(_, _)
\* The end of the line that starts at i
PlainEnd(t, i) == IF i > Len(t) \/ t[i] = NL THEN i ELSE PlainEnd(t, i + 1)

RECURSIVE ParseYamlEntries(_, _, _)
ParseYamlEntries(t, i, m) ==
    IF ~ (/\ i + 3 <= Len(t)
          /\ t[i] \in KeyAtoms /\ t[i + 1] = ":" /\ t[i + 2] = " "
          /\ t[i + 3] # NL)
    THEN ParseError
    ELSE LET r == IF t[i + 3] = Quote THEN ScanString(t, i + 4, <<>>)
                  ELSE [ok |-> TRUE, s |-> SubSeq(t, i + 3, PlainEnd(t, i + 3) - 1),
                        next |-> PlainEnd(t, i + 3)]
             n == r.next
         IN  IF ~r.ok THEN ParseError
             ELSE IF n > Len(t) \/ (n = Len(t) /\ t[n] = NL)
                  THEN Parsed(Object(Put(m, t[i], r.s)))
             ELSE IF t[n] = NL THEN ParseYamlEntries(t, n + 1, Put(m, t[i], r.s))
             ELSE ParseError

\* The document behind an optional "---" line
YamlBody(t) ==
    IF Len(t) >= 2 /\ t[1] = "---" /\ t[2] = NL THEN SubSeq(t, 3, Len(t)) ELSE t

\* serde_yaml::from_str::<Value> on the texts that occur: block mappings of
\* strings, "{}", a scalar or sequence root, or something that is not YAML
\* (an unclosed flow mapping)
ParseYaml(lib, t) ==
    LET b == YamlBody(t)
    IN  IF TrimEnd(b) = <<>> THEN (IF lib = "0.8" THEN ParseError ELSE Parsed(OtherRoot))
        ELSE IF TrimEnd(b) = <<"{", "}">> THEN Parsed(Object(EmptyMap))
        ELSE IF b[1] = "{" THEN ParseError
        ELSE IF Len(b) >= 2 /\ b[1] \in KeyAtoms /\ b[2] = ":"
             THEN ParseYamlEntries(b, 1, EmptyMap)
        ELSE Parsed(OtherRoot)

\* Mutant of InsertToken: a root that is no object is kept, under a key
InsertTokenKeepsRoot(d, key, value) ==
    IF d.root = "object" THEN Object(Put(d.map, key, value))
    ELSE Object(Put(Put(EmptyMap, "name", <<"7">>), key, value))

\* inject_json / inject_yaml: map.insert(key, token.value) into an object
\* root; any other root is replaced by a new map holding the one entry
InsertToken(d, key, value) ==
    IF d.root = "object" THEN Object(Put(d.map, key, value))
    ELSE Object(Put(EmptyMap, key, value))

Injected(b) == [ok |-> TRUE, body |-> b, error |-> "none"]
NotInjected(b, e) == [ok |-> FALSE, body |-> b, error |-> e]

\* FileInjectionService::inject_env
InjectEnv(content, name, value) ==
    Injected(TrimEnd(content) \o <<NL, NL, "# Added by RedToken", NL, name, "=">>
             \o value \o <<NL>>)

\* Mutant of InjectJson: a content that does not parse is overwritten
InjectJsonRepairs(content, key, value) ==
    LET r == ParseJson(content)
    IN  Injected(RenderJson(InsertToken(IF r.ok THEN r.doc ELSE OtherRoot, key, value)))

\* FileInjectionService::inject_json
InjectJson(content, key, value) ==
    LET r == ParseJson(content)
    IN  IF r.ok THEN Injected(RenderJson(InsertToken(r.doc, key, value)))
        ELSE NotInjected(content, "InvalidFileFormat")

\* FileInjectionService::inject_yaml
InjectYaml(lib, content, key, value) ==
    LET r == ParseYaml(lib, content)
    IN  IF r.ok THEN Injected(RenderYaml(lib, InsertToken(r.doc, key, value)))
        ELSE NotInjected(content, "InvalidFileFormat")

\* inject_bash_history's fake_commands
FakeCommand(c, value) ==
    CASE c = 1 -> <<"curl -H 'Authorization: Bearer ">> \o value
                  \o <<"' https://api.example.com/v1/users">>
      [] c = 2 -> <<"aws s3 cp myfile.txt s3://mybucket --secret-key ">> \o value
      [] c = 3 -> <<"git clone https://">> \o value \o <<"@github.com/myorg/myrepo.git">>
      [] c = 4 -> <<"export API_KEY=">> \o value

\* FileInjectionService::inject_bash_history
InjectBashHistory(content, c, value) ==
    Injected(TrimEnd(content) \o <<NL>> \o FakeCommand(c, value) \o <<NL>>)

\* FileInjector::inject_token: the match on the configured file type; the
\* configuration never carries an injection pattern
InjectorInjectToken(kind, lib, content, key, name, c, value) ==
    CASE kind = "Env" -> InjectEnv(content, name, value)
      [] kind = "Json" -> InjectJson(content, key, value)
      [] kind = "Yaml" -> InjectYaml(lib, content, key, value)
      [] kind = "BashHistory" -> InjectBashHistory(content, c, value)
      [] kind = "Custom" -> NotInjected(content, "MissingPattern")

\* FileInjector::verify_injection
VerifyInjection(content, value) == Contains(content, value)

\* FileInjector::remove_token
InjectorRemoveToken(content, value) == Replace(content, value, Marker)

\* backup_file: fs::copy of the target file to backups/<timestamp>_<filename>
Backup(b, time, content) ==
    [k \in (DOMAIN b) \cup {<<time, "f">>} |-> IF k = <<time, "f">> THEN content ELSE b[k]]

\* The parse of inject_json / inject_yaml, by file kind
ParseDocument(kind, lib, t) == IF kind = "Json" THEN ParseJson(t) ELSE ParseYaml(lib, t)

\* What the target file holds before the first call
InitialBodies(kind) ==
    CASE kind = "Json" ->
           { <<>>, <<"{">>, <<"7">>, RenderJson(Object(EmptyMap)),
             RenderJson(Object(Put(EmptyMap, "apiToken100", <<"q">>))) }
      [] kind = "Yaml" ->
           { <<"{">>, <<"q", NL>>, <<"-", " ", "q", NL>>, <<"{", "}", NL>>,
             <<"apiToken100", ":", " ", "q", NL>> }
      [] OTHER -> { <<>>, <<"D", NL>>, <<"q", " ", NL, NL>> }

\* One service with the file store and backups on (the configuration in
\* which the CLI's calls share their records), no channel, one caller, one
\* target file, and no I/O fault
InitFile ==
    /\ InitCommon
    /\ serial = TRUE
    /\ storeKind = "file"
    /\ channels = <<>>
    /\ fileKind \in FileKinds
    /\ yamlLib \in (IF fileKind = "Yaml" THEN YamlLibs ELSE {"0.9"})
    /\ body \in InitialBodies(fileKind)
    /\ prevBody = body
    /\ scrubbed = FALSE
    /\ last = NoCall
    /\ priors = {}

\* RedTokenService::inject_token on the target file, run to its return:
\* Honeytoken::new, FileInjector::inject_token, TokenRepository::save.
\* A Yaml document is followed up to its first scrub (what the parser makes
\* of a value that reads [REDACTED] is outside the modelled documents).
InjectTokenCall(value, key, name, c) ==
    /\ opsStarted < MaxOps
    /\ nextId <= MaxTokens
    /\ ~(fileKind = "Yaml" /\ scrubbed)
    /\ LET token == NewToken(nextId, value, "f", now)
           r == InjectorInjectToken(fileKind, yamlLib, body, key, name, c, value)
       IN  /\ backups' = IF fileKind = "Custom" THEN backups ELSE Backup(backups, now, body)
           /\ body' = r.body
           /\ IF r.ok THEN store' \in Reloaded(Save(store, token)) ELSE store' = store
           /\ priors' = IF r.ok THEN priors \cup {body} ELSE priors
           /\ last' = [op |-> "inject", id |-> token.id, value |-> value, key |-> key,
                       ok |-> r.ok, error |-> r.error]
    /\ prevBody' = body
    /\ nextId' = nextId + 1
    /\ opsStarted' = opsStarted + 1
    /\ UNCHANGED <<cfgVars, fileKind, yamlLib, scrubbed, files, now, logVars, procVars>>

\* RedTokenService::remove_token on the target file, run to its return:
\* find_by_id, then FileInjector::remove_token for a known id
RemoveTokenCall(id) ==
    /\ opsStarted < MaxOps
    /\ IF id \in DOMAIN store
       THEN /\ backups' = Backup(backups, now, body)
            /\ body' = InjectorRemoveToken(body, store[id].value)
            /\ priors' = priors \cup {body}
            /\ scrubbed' = TRUE
            /\ last' = [op |-> "remove", id |-> id, value |-> store[id].value,
                        key |-> "none", ok |-> TRUE, error |-> "none"]
       ELSE /\ backups' = backups
            /\ body' = body
            /\ priors' = priors
            /\ scrubbed' = scrubbed
            /\ last' = [op |-> "remove", id |-> id, value |-> <<>>, key |-> "none",
                        ok |-> TRUE, error |-> "none"]
    /\ prevBody' = body
    /\ opsStarted' = opsStarted + 1
    /\ UNCHANGED <<cfgVars, fileKind, yamlLib, store, files, now, nextId, logVars,
                   procVars>>

NextFile ==
    \/ \E value \in FileValues, key \in Keys, name \in VarNames, c \in CommandIdx :
         InjectTokenCall(value, key, name, c)
    \/ \E id \in Ids : RemoveTokenCall(id)

\* The injector's work on one target file, text and all; the calls fall in
\* one second of the clock
SpecFile == InitFile /\ [][NextFile]_vars

NextFileTimed ==
    \/ \E value \in FileValues, key \in Keys, name \in VarNames, c \in CommandIdx :
         InjectTokenCall(value, key, name, c)
    \/ \E id \in Ids : RemoveTokenCall(id)
    \/ Tick

\* The same, with the clock advancing between the calls or not
SpecFileTimed == InitFile /\ [][NextFileTimed]_vars


\* ====================================================================== claims
Done(p, o) == pc[p] = "done" /\ op[p] = o

\* C1: every token that inject_token returned is stored untriggered with
\* last_checked = None right after inject_token; after a successful
\* check_token(t.value) the stored record of t is triggered; and once a record
\* is triggered no later call changes it (is_triggered and last_checked stay).
C1_AfterInject ==
    \A p \in Procs :
        (Done(p, "inject") /\ res[p] = "ok") =>
            /\ Token(p).id \in DOMAIN store
            /\ store[Token(p).id].is_triggered = FALSE
            /\ store[Token(p).id].last_checked = None

C1_AfterCheck ==
    \A p \in Procs :
        (Done(p, "check") /\ res[p] = "ok") =>
            \A i \in Matching(store, arg[p].value) : store[i].is_triggered

C1_LaterChecksChangeNothing ==
    \A i \in DOMAIN store :
        store[i].is_triggered => (i \in DOMAIN store' /\ store'[i] = store[i])

\* C1: the three parts together: untriggered after inject_token, triggered
\* after the first successful check_token(t.value), unchanged ever after.
C1_TriggerOnceThenIdempotent ==
    /\ []C1_AfterInject
    /\ []C1_AfterCheck
    /\ [][C1_LaterChecksChangeNothing]_vars

\* C2: send_alert is invoked at most once for a token, whatever the
\* interleaving of the check_token calls for its value.
C2_AtMostOneAlertPerToken ==
    \A i \in Ids : alerts[i] <= 1

\* C3: in the file-persisted store, the record of every save/update call that
\* returned success is in the backing file.
C3_NoLostUpdate ==
    storeKind = "file" => persisted \subseteq DOMAIN store

\* C4: a token that was stored with is_triggered = true is never later stored
\* with is_triggered = false, on either store.
C4_TriggeredIsMonotone ==
    \A i \in everTriggered : i \in DOMAIN store => store[i].is_triggered

OkResponse == [status |-> 200, success |-> TRUE]

C6_LookupStep(p) ==
    \/ pc[p] # "chk_find" /\ pc'[p] = "chk_find"
    \/ pc[p] = "chk_find" /\ pc'[p] = "done"

C6_Frame ==
    \A p \in Procs :
        C6_LookupStep(p) =>
            /\ store' = store
            /\ alerts' = alerts
            /\ attempts' = attempts

C6_ReturnsOk ==
    \A p \in Procs :
        (Done(p, "check") /\ Matching(store, arg[p].value) = {}) => res[p] = "ok"

\* C6 as stated: check_token(v) for a value v that matches no stored token
\* returns success, changes no store record and invokes no channel.
C6_NoMatchIsSuccess ==
    /\ []C6_ReturnsOk
    /\ [][C6_Frame]_vars

C6_ReturnsOkUnlessLookupFails ==
    \A p \in Procs :
        (Done(p, "check") /\ Matching(store, arg[p].value) = {}) =>
            /\ res[p] = "ok" \/ failed[p] = "find"
            /\ kase[p] = "notfound" => res[p] = "ok"

\* C6 amended: check_token(v) for a value v that matches no stored token
\* changes no store record and invokes no channel; it returns success when
\* the lookup returns None, and the lookup's error when the lookup fails.
C6_NoMatchIsSuccessUnlessLookupFails ==
    /\ []C6_ReturnsOkUnlessLookupFails
    /\ [][C6_Frame]_vars

\* A check of a value that matches nothing, in a store that holds a token
C6_Witness ==
    \E p \in Procs :
        /\ Done(p, "check") /\ kase[p] = "notfound" /\ res[p] = "ok"
        /\ store # EmptyMap

\* C7: when check_token finds an untriggered token and every channel fails,
\* check_token returns success and the stored record is triggered with
\* last_checked set.
C7_AlertFailureKeepsTrigger ==
    \A p \in Procs :
        (Done(p, "check") /\ sent[p] = "err") =>
            /\ res[p] = "ok"
            /\ kase[p] = "untriggered"
            /\ Token(p).id \in DOMAIN store
            /\ store[Token(p).id].is_triggered
            /\ store[Token(p).id].last_checked # None

\* A check whose two channels both failed
C7_Witness ==
    \E p \in Procs :
        /\ Done(p, "check") /\ sent[p] = "err" /\ res[p] = "ok"
        /\ Len(channels) = 2
        /\ \A c \in 1..Len(channels) : attempts[<<Token(p).id, c>>] = 1

StoredOnce(v) == Cardinality(Matching(store, v)) = 1

\* C8 as stated: for a value stored once, the first check_token(value) makes
\* exactly one dispatch attempt per configured channel and every later one
\* makes none: after any finished check the count per channel is one.
C8_OneDispatchPerChannel ==
    \A p \in Procs :
        (Done(p, "check") /\ StoredOnce(arg[p].value)) =>
            \A i \in Matching(store, arg[p].value), c \in 1..Len(channels) :
                attempts[<<i, c>>] = 1

\* C8 amended: for a value stored once, the first check_token(value) that
\* returns success makes exactly one dispatch attempt per configured channel;
\* a check that fails in the store before it, and every check after it, makes
\* none.
C8_OneDispatchPerChannelOnSuccess ==
    /\ \A i \in DOMAIN store, c \in ChanIdx :
          StoredOnce(store[i].value) => attempts[<<i, c>>] <= 1
    /\ \A p \in Procs :
          (Done(p, "check") /\ StoredOnce(arg[p].value) /\ res[p] = "ok") =>
              \A i \in Matching(store, arg[p].value), c \in 1..Len(channels) :
                  attempts[<<i, c>>] = 1

\* A later check of a value stored once, with two channels configured
C8_Witness ==
    \E p \in Procs :
        /\ Done(p, "check") /\ kase[p] = "triggered" /\ StoredOnce(arg[p].value)
        /\ Len(channels) = 2
        /\ \A c \in 1..Len(channels) : attempts[<<Token(p).id, c>>] = 1

\* C9: after remove_token(id) returned success for an id the store held, the
\* store holds no record for id: find_by_id gives None and list_tokens does
\* not list it.
C9_RemoveDeletesRecord ==
    \A p \in Procs :
        (Done(p, "remove") /\ res[p] = "ok" /\ kase[p] = "found") =>
            /\ arg[p].id \notin DOMAIN store
            /\ \A t \in FindAll(store) : t.id # arg[p].id

\* C10: inject_token calls the injector before the store: a record is saved
\* only after the injector returned Ok for it, and when the injector fails
\* inject_token returns the error and saves no record for the new token.
C10_InjectorBeforeStore ==
    /\ DOMAIN store \subseteq injectedOk
    /\ persisted \subseteq injectedOk
    /\ \A p \in Procs :
          (op[p] = "inject" /\ failed[p] = "inject") =>
              /\ res[p] = "err"
              /\ Token(p).id \notin DOMAIN store
              /\ Token(p).id \notin persisted

\* An inject_token whose injector failed, in a store that holds a token
C10_Witness ==
    \E p \in Procs :
        /\ Done(p, "inject") /\ failed[p] = "inject" /\ res[p] = "err"
        /\ store # EmptyMap

\* verify_injection: content.contains(&token.value)
Carries(c, v) == \E k \in 1..Len(c) : c[k] = v

\* C11: when the injector step of inject_token succeeded and the save then
\* failed, inject_token returns the error, the target file still carries the
\* token value and the store has no record of the token.
C11_SaveFailureLeavesUntrackedToken ==
    \A p \in Procs :
        (Done(p, "inject") /\ failed[p] = "store") =>
            /\ res[p] = "err"
            /\ Token(p).id \in injectedOk
            /\ Carries(files[Token(p).file_path], Token(p).value)
            /\ Token(p).id \notin DOMAIN store

\* An inject_token whose save failed in write_db, after an earlier token
\* was stored
C11_Witness ==
    \E p \in Procs :
        /\ Done(p, "inject") /\ failed[p] = "store" /\ res[p] = "err"
        /\ Carries(files[Token(p).file_path], Token(p).value)
        /\ store # EmptyMap

\* C12: with backups enabled, an operation whose backup failed returns the
\* error and never reads or writes the target file
C12_BackupFailureAborts ==
    \A p \in Procs :
        /\ bak[p] = "err" => (pc[p] = "done" /\ res[p] = "err")
        /\ (BackupEnabled /\ pc[p] \in {"inj_read", "inj_write", "rm_read", "rm_write"})
              => bak[p] = "ok"

\* C12: with backups enabled, a step that changes a target file is the write
\* of an operation whose own backup step succeeded
C12_WriteFollowsBackup ==
    (BackupEnabled /\ files' # files) =>
        \E p \in Procs :
            /\ pc[p] \in {"inj_write", "rm_write"}
            /\ pc'[p] # pc[p]
            /\ bak[p] = "ok"

\* C12: with backups enabled, if taking the backup fails during the
\* injector's inject_token or remove_token, the operation returns the error
\* and the target file is unchanged: the file is never written unless the
\* backup step of the same operation succeeded first.
C12_NoWriteWithoutBackup ==
    /\ []C12_BackupFailureAborts
    /\ [][C12_WriteFollowsBackup]_vars

\* A remove_token whose backup failed, on a file that carries the value
C12_Witness ==
    \E p \in Procs :
        /\ Done(p, "remove") /\ bak[p] = "err" /\ res[p] = "err"
        /\ Carries(files[Token(p).file_path], Token(p).value)

\* C13: send_alert returns success if at least one configured channel
\* delivered, and failure only if every configured channel failed, for every
\* combination of per-channel outcomes.
C13_SuccessIffSomeChannelDelivered ==
    \A p \in Procs :
        /\ sent[p] = "ok" <=> (sent[p] # "none" /\ \E k \in DOMAIN tries[p] : tries[p][k].ok)
        /\ sent[p] = "err" <=> (sent[p] # "none" /\ \A k \in DOMAIN tries[p] : ~tries[p][k].ok)

\* A send_alert whose first channel failed and whose second delivered
C13_Witness ==
    \E p \in Procs :
        /\ sent[p] = "ok"
        /\ Len(tries[p]) = 2 /\ ~tries[p][1].ok /\ tries[p][2].ok

\* C14: within one send_alert call every configured channel is attempted
\* exactly once, in configuration order, whatever the earlier channels'
\* outcomes; a failure stops nothing and no channel is tried again.
C14_EveryChannelOnceInOrder ==
    \A p \in Procs :
        /\ \A k \in DOMAIN tries[p] : tries[p][k].ch = k
        /\ Len(tries[p]) <= Len(channels)
        /\ pc[p] = "notify" => Len(tries[p]) = ci[p] - 1
        /\ sent[p] # "none" => Len(tries[p]) = Len(channels)

\* A send_alert over two channels whose first channel failed
C14_Witness ==
    \E p \in Procs :
        /\ sent[p] # "none"
        /\ Len(tries[p]) = 2 /\ ~tries[p][1].ok
        /\ tries[p][1].ch = 1 /\ tries[p][2].ch = 2

\* C15: for the in-memory store every save and update takes effect atomically
\* under the lock: after any interleaving of overlapping calls the map holds,
\* for every id written, a record that one of the calls wrote for that id,
\* and the record of no other id is lost.
C15_MemoryStoreIsAtomic ==
    storeKind = "memory" =>
        /\ persisted \subseteq DOMAIN store
        /\ \A i \in DOMAIN store : store[i] \in written[i]

\* Two overlapping check_token calls updated the record of one id in the
\* in-memory store with different records, after the save of inject_token
C15_Witness ==
    /\ storeKind = "memory"
    /\ \E i \in DOMAIN store : alerts[i] = 2 /\ Cardinality(written[i]) = 3

HasValue(v) == \E i \in DOMAIN store : store[i].value = v

\* C16: find_by_value(v) returns None when no stored record has a value
\* exactly equal to v (case-sensitive), and otherwise a stored record whose
\* value equals v; never a record with a different value.
C16_FindByValueIsExact ==
    \A p \in Procs :
        (Done(p, "check") /\ failed[p] # "find") =>
            /\ kase[p] \in {"notfound", "triggered", "untriggered"}
            /\ kase[p] = "notfound" <=> ~HasValue(arg[p].value)
            /\ kase[p] # "notfound" =>
                  /\ Token(p).value = arg[p].value
                  /\ Token(p).id \in DOMAIN store
                  /\ store[Token(p).id].value = arg[p].value

\* A lookup of "A" gave None while a record with value "a" is stored
C16_Witness ==
    \E p \in Procs :
        /\ Done(p, "check") /\ kase[p] = "notfound"
        /\ arg[p].value = "A" /\ HasValue("a")

\* C17: after any sequence of inject_token calls no two stored records share
\* a value, so every stored token is the record find_by_value gives for its
\* value.
C17_StoredValuesAreUnique ==
    \A i, j \in DOMAIN store : i # j => store[i].value # store[j].value

\* What a reload of the file store yields, in one state
C18_RoundTrip ==
    storeKind = "file" =>
        /\ DOMAIN store = persisted
        /\ Reloaded(store) = {store}
        /\ \A i \in DOMAIN store : store[i] \in written[i]
        /\ \A p \in Procs :
              (pc[p] = "done" /\ res[p] = "ok" /\ tok[p] # None
                 /\ (op[p] = "inject" \/ (op[p] = "check" /\ kase[p] = "untriggered")))
                => /\ Token(p).id \in DOMAIN store
                   /\ store[Token(p).id] = Token(p)
                   /\ Token(p) \in FindAll(store)

\* C18: N tokens with distinct ids saved to the file store and read back
\* through a fresh FileTokenRepository are exactly N records, each equal to
\* the saved token in id, value, file_path, created_at, last_checked and
\* is_triggered.
C18_FileStoreRoundTrip == []C18_RoundTrip

\* Two records in the file, one of them written back triggered with its
\* last_checked time
C18_Witness ==
    /\ storeKind = "file"
    /\ Cardinality(DOMAIN store) = 2
    /\ \E p \in Procs :
          /\ Done(p, "check") /\ kase[p] = "untriggered" /\ res[p] = "ok"
          /\ store[Token(p).id].last_checked = Some(MaxTime)

\* The tokens save and update are tried with in a state: a new token under
\* every id, stored or not, and every stored record marked as triggered
TokenUniverse ==
    {NewToken(i, v, f, now) : i \in Ids, v \in Values, f \in Paths}
        \cup {MarkAsTriggered(store[i], now) : i \in DOMAIN store}

\* The laws of save and update on the store as it stands
C19_UpsertLaws ==
    \A t \in TokenUniverse :
        LET s1 == Save(store, t)
        IN  /\ Save(s1, t) = s1
            /\ DOMAIN s1 = (DOMAIN store) \cup {t.id}
            /\ s1[t.id] = t
            /\ \A j \in (DOMAIN store) \ {t.id} : s1[j] = store[j]
            /\ Update(store, t) = s1
            /\ Update(s1, t) = s1

\* Saving or updating again the token a call has just stored changes nothing
C19_StoredTokenIsFixpoint ==
    \A p \in Procs :
        (pc[p] = "done" /\ res[p] = "ok" /\ tok[p] # None
           /\ (op[p] = "inject" \/ (op[p] = "check" /\ kase[p] = "untriggered")))
          => /\ Save(store, Token(p)) = store
             /\ Update(store, Token(p)) = store

\* C19: save is an upsert keyed by id and is idempotent: save(t); save(t)
\* leaves the state of one save(t), a save with an existing id overwrites
\* only that record, and update(t) has the effect of save(t) in every store
\* state, also when t.id is not stored.
C19_SaveIsIdempotentUpsert == [](C19_UpsertLaws /\ C19_StoredTokenIsFixpoint)

\* An update of a stored id that left the other stored record as it was
C19_Witness ==
    \E p \in Procs :
        /\ Done(p, "check") /\ kase[p] = "untriggered" /\ res[p] = "ok"
        /\ store[Token(p).id] = Token(p)
        /\ \E j \in DOMAIN store : j # Token(p).id /\ store[j] \in written[j]

C20_ValueIsNonEmpty ==
    \A i \in DOMAIN store : store[i].value # ""

C20_IdentityIsFixed ==
    \A i \in (DOMAIN store) \cap (DOMAIN store') :
        /\ store'[i].id = store[i].id
        /\ store'[i].value = store[i].value
        /\ store'[i].file_path = store[i].file_path
        /\ store'[i].created_at = store[i].created_at

\* C20: every record ever persisted has a non-empty value, and the id, value,
\* file_path and created_at stored for an id never change across inject_token,
\* check_token and remove_token calls; only is_triggered and last_checked may.
C20_ValueNonEmptyAndIdentityFixed ==
    /\ []C20_ValueIsNonEmpty
    /\ [][C20_IdentityIsFixed]_vars

C24_MissingPatternIsAnError ==
    \A p \in Procs :
        (Done(p, "inject") /\ arg[p].file_type = "Custom" /\ ~arg[p].pattern) =>
            /\ res[p] = "err"
            /\ error[p] = "MissingPattern"
            /\ bak[p] = "none"
            /\ Token(p).id \notin injectedOk
            /\ Token(p).id \notin persisted
            /\ Token(p).id \notin DOMAIN store

C24_CustomStepsWriteNothing ==
    \A p \in Procs :
        (pc'[p] # pc[p] /\ (pc[p] = "inj_custom" \/ pc'[p] = "inj_custom")) =>
            /\ files' = files
            /\ backups' = backups
            /\ store' = store

\* C24: inject_token with file kind Custom and no injection pattern fails
\* with the missing-pattern error, writes neither the target file nor a
\* backup, and saves no store record.
C24_MissingPatternWritesNothing ==
    /\ []C24_MissingPatternIsAnError
    /\ [][C24_CustomStepsWriteNothing]_vars

\* A Custom inject_token that failed, with backups enabled and a file that
\* carries an earlier token
C24_Witness ==
    \E p \in Procs :
        /\ Done(p, "inject") /\ arg[p].file_type = "Custom"
        /\ error[p] = "MissingPattern"
        /\ BackupEnabled
        /\ files[Token(p).file_path] # <<>>

C27_FailedStoreCallIsDone ==
    \A p \in Procs :
        (storeKind = "file" /\ failed[p] \in {"store", "find"}) =>
            /\ pc[p] = "done"
            /\ res[p] = "err"
            /\ fault[p] \in ReadFaults
            /\ error[p] \in {"DatabaseError", "FileReadError", "FileWriteError"}
            /\ fault[p] = "decode" => error[p] = "DatabaseError"
            /\ error[p] = "DatabaseError" => fault[p] = "decode"

C27_FailedStepKeepsFile ==
    \A p \in Procs :
        /\ (pc[p] \in {"st_read", "chk_find", "rm_find"} /\ res'[p] = "err") =>
              /\ store' = store
              /\ error'[p] = (IF fault'[p] = "decode" THEN "DatabaseError"
                               ELSE "FileReadError")
        /\ (pc[p] = "st_write" /\ res'[p] = "err") =>
              /\ store' = store
              /\ error'[p] = "FileWriteError"

\* C27: every operation of the file store fails with DatabaseError when the
\* backing file does not decode and with FileReadError / FileWriteError on
\* an I/O failure; the error is returned to the caller, and after a failed
\* read the backing file is unchanged (save and update write nothing).
C27_FileStoreErrorsAreReturned ==
    /\ []C27_FailedStoreCallIsDone
    /\ [][C27_FailedStepKeepsFile]_vars

\* An update whose read_db met a file that does not decode
C27_Witness ==
    \E p \in Procs :
        /\ Done(p, "check") /\ kase[p] = "untriggered" /\ failed[p] = "store"
        /\ fault[p] = "decode" /\ error[p] = "DatabaseError"
        /\ ~store[Token(p).id].is_triggered

\* C28: in check_token the triggered record is persisted before any alert is
\* dispatched: whenever a channel is attempted for a token, the store
\* already holds the token with is_triggered = true.
C28_PersistedBeforeAlert ==
    \A p \in Procs :
        (pc[p] = "notify" \/ tries[p] # <<>>) =>
            /\ Token(p).id \in DOMAIN store
            /\ store[Token(p).id].is_triggered

\* C29: in every store state a record has last_checked = None exactly when
\* is_triggered = false.
C29_LastCheckedIffTriggered ==
    /\ \A i \in DOMAIN store :
          (store[i].last_checked = None) <=> ~store[i].is_triggered
    /\ \A i \in Ids : \A t \in written[i] :
          (t.last_checked = None) <=> ~t.is_triggered

\* A store with a triggered and an untriggered record
C29_Witness ==
    \E i, j \in DOMAIN store :
        /\ store[i].is_triggered /\ store[i].last_checked # None
        /\ ~store[j].is_triggered /\ store[j].last_checked = None

\* C30: when the update fails inside check_token for a found, untriggered
\* token, check_token returns that error, no channel is attempted and the
\* stored record stays untriggered; a later check_token of the value still
\* performs the transition and sends the alert.
C30_FailedUpdateCanBeRetried ==
    /\ \A p \in Procs :
          (Done(p, "check") /\ kase[p] = "untriggered" /\ failed[p] = "store") =>
              /\ res[p] = "err"
              /\ error[p] # "none"
              /\ sent[p] = "none"
              /\ tries[p] = <<>>
              /\ Token(p).id \in updateFailed
              /\ ~store[Token(p).id].is_triggered
              /\ store[Token(p).id].last_checked = None
    /\ \A i \in updateFailed :
          /\ i \in DOMAIN store
          /\ alerts[i] = (IF store[i].is_triggered THEN 1 ELSE 0)
    /\ \A p \in Procs :
          (Done(p, "check") /\ kase[p] = "untriggered" /\ res[p] = "ok") =>
              /\ store[Token(p).id].is_triggered
              /\ alerts[Token(p).id] = 1

\* A check_token that triggered and alerted for a token whose update had
\* failed in an earlier call
C30_Witness ==
    \E p \in Procs :
        /\ Done(p, "check") /\ kase[p] = "untriggered" /\ res[p] = "ok"
        /\ Token(p).id \in updateFailed
        /\ store[Token(p).id].is_triggered
        /\ alerts[Token(p).id] = 1

\* C21: the injector's remove_token, run on a file that contains the token
\* value, puts [REDACTED] in place of each occurrence and leaves no
\* occurrence of the raw value in the file.
C21_ScrubLeavesNoOccurrence ==
    (last.op = "remove" /\ last.id \in DOMAIN store /\ Contains(prevBody, last.value)) =>
        /\ body = Replace(prevBody, last.value, Marker)
        /\ ~Contains(body, last.value)

Structured == fileKind \in {"Json", "Yaml"}
Before == ParseDocument(fileKind, yamlLib, prevBody)
After == ParseDocument(fileKind, yamlLib, body)

\* C22: injecting into a well-formed Json or Yaml document with an object
\* root yields a document that parses, keeps every earlier key with its
\* value, and has exactly one more key, whose value is the token value.
C22_ObjectRootGainsOneKey ==
    (last.op = "inject" /\ Structured /\ Before.ok /\ Before.doc.root = "object") =>
        /\ last.ok
        /\ After.ok
        /\ After.doc.root = "object"
        /\ \A k \in DOMAIN Before.doc.map :
              k \in DOMAIN After.doc.map /\ After.doc.map[k] = Before.doc.map[k]
        /\ last.key \notin DOMAIN Before.doc.map
        /\ DOMAIN After.doc.map = (DOMAIN Before.doc.map) \cup {last.key}
        /\ After.doc.map[last.key] = last.value

\* C23: injecting into a Json or Yaml document whose root is no object
\* replaces the root by an object with exactly one key, whose value is the
\* token value.
C23_OtherRootIsReplaced ==
    (last.op = "inject" /\ Structured /\ Before.ok /\ Before.doc.root # "object") =>
        /\ last.ok
        /\ After.ok
        /\ After.doc.root = "object"
        /\ DOMAIN After.doc.map = {last.key}
        /\ After.doc.map[last.key] = last.value
        /\ last.id \in DOMAIN store

\* A Yaml scalar root replaced by a mapping whose one value is written in
\* quotes
C23_Witness ==
    /\ last.op = "inject" /\ last.ok
    /\ fileKind = "Yaml" /\ yamlLib = "0.8"
    /\ prevBody = <<"q", NL>>
    /\ last.value = <<"q", Quote>>

\* C25: inject_token with kind Json or Yaml on a file that does not parse
\* fails with InvalidFileFormat, leaves the file's content as it was and
\* saves no store record.
C25_UnparsableFileIsRejected ==
    (last.op = "inject" /\ Structured /\ ~Before.ok) =>
        /\ ~last.ok
        /\ last.error = "InvalidFileFormat"
        /\ body = prevBody
        /\ last.id \notin DOMAIN store

\* A Json file that stopped parsing when an earlier token was scrubbed from
\* it, and an inject_token rejected on it
C25_Witness ==
    /\ last.op = "inject" /\ ~last.ok
    /\ last.error = "InvalidFileFormat"
    /\ fileKind = "Json"
    /\ scrubbed
    /\ store # EmptyMap

\* C26: whenever the injector's inject_token returns success, for every file
\* kind, verify_injection right after it is true (the file contains the
\* exact token value), so every tracked token is embedded in its file.
C26_InjectedTokenVerifies ==
    (last.op = "inject" /\ last.ok) =>
        /\ last.id \in DOMAIN store
        /\ VerifyInjection(body, last.value)

HasEmail == \E i \in 1..Len(channels) : channels[i] = "Email"

\* The outcome of send_alert with an Email channel, in one state
C31_EmailDecides ==
    \A p \in Procs :
        /\ (HasEmail /\ sent[p] # "none") => sent[p] = "ok"
        /\ \A j \in 1..Len(tries[p]) :
              channels[tries[p][j].ch] = "Email" => tries[p][j].ok

\* C31: whenever the channel list contains an Email channel, send_alert
\* returns success whatever the Telegram and Discord channels did, because
\* the Email delivery always reports success.
C31_EmailMakesAlertSucceed == []C31_EmailDecides

\* A send_alert that succeeded although its Telegram delivery failed
C31_Witness ==
    \E p \in Procs :
        /\ HasEmail /\ sent[p] = "ok"
        /\ \E j \in 1..Len(tries[p]) :
              channels[tries[p][j].ch] = "Telegram" /\ ~tries[p][j].ok

\* send_alert and check_token with no channel, in one state
C32_NoChannel ==
    \A p \in Procs :
        /\ (channels = <<>> /\ sent[p] # "none") =>
              /\ sent[p] = "err"
              /\ tries[p] = <<>>
              /\ \A k \in ChanIdx : attempts[<<Token(p).id, k>>] = 0
        /\ (channels = <<>> /\ Done(p, "check") /\ kase[p] = "untriggered"
                /\ failed[p] # "store") =>
              /\ res[p] = "ok"
              /\ sent[p] = "err"
              /\ Token(p).id \in persisted
              /\ store[Token(p).id].is_triggered

C33_EveryPriorContentIsBackedUp ==
    \A c \in priors : \E k \in DOMAIN backups : backups[k] = c

\* C34: remove_token(id) leaves every other tracked token of the file
\* intact: a stored token of another value whose verify_injection was true
\* before the removal still verifies after it.
C34_RemoveSparesOtherTokens ==
    (last.op = "remove" /\ last.id \in DOMAIN store) =>
        \A u \in DOMAIN store :
            (u # last.id /\ store[u].value # last.value
               /\ VerifyInjection(prevBody, store[u].value)) =>
                VerifyInjection(body, store[u].value)

\* C35: injecting several tokens one after another into one Json or Yaml
\* file keeps every earlier token's value in the document, whatever key
\* suffixes are drawn.
C35_EarlierTokensStayInDocument ==
    (Structured /\ ~scrubbed /\ last.op = "inject" /\ last.ok) =>
        /\ After.ok
        /\ \A i \in DOMAIN store :
              \E k \in DOMAIN After.doc.map : After.doc.map[k] = store[i].value

====
